---- MODULE Spec2Model ----
(***************************************************************************)
(* Model of the MKV batch processor (mkvtoolnix_title_and_subtitles.py):   *)
(* MKVProcessor.run and the JSON ledgers it writes.                        *)
(*                                                                         *)
(* Two specifications share the definitions below.                         *)
(*   LedgerSpec  applies _write_or_append_to_json to ledger files that     *)
(*               start in any state a file on disk can be in.              *)
(*   Spec        is one run of MKVProcessor.run, from ledgers that earlier  *)
(*               runs may have left; FairSpec adds its progress.           *)
(***************************************************************************)
EXTENDS Integers, Sequences, FiniteSets, TLC

VARIABLES
    ledger,         \* the two ledger files on disk, by file suffix
    now,            \* the clock read by datetime.now(), in whole seconds
    run,            \* number of runs (processes) started so far
    lastRecord,     \* how the latest record call ended: "none", "completed", "raised"
    initLedger,     \* history: the ledger files as found at the beginning
    recorded,       \* history: per store, messages of the completed records
    calls,          \* history: per store, number of record calls begun
    firstWrite,     \* history: per store, clock of the first completed record
    MKVMERGE_EXECUTABLE,    \* config, after os.path.normpath (line 104)
    INPUT_DIRECTORIES,      \* config, after os.path.normpath (line 105)
    FILE_EXTENSIONS,        \* config (line 106)
    given_directories,      \* history: config['input_directories'] as given
    pc,             \* where run() stands
    dirIdx,         \* position of the for loop of line 293; 0 before it
    ext_files,      \* the files process_directory has still to process
    processedDirs,  \* input directories that hold a processed_files directory
    outputs,        \* output files the tool wrote with status zero: path, source
    attempts,       \* history: the process_file calls of this run, in order
    scanned,        \* history: loop positions process_directory was called at
    printed,        \* history: the timing lines this run has printed
    preRun,         \* history: ledger and disk as the run found them
    firstRun,       \* history: what the run before this one did
    writers,        \* per concurrent process, where its record call stands
    given_letters,  \* list_subdirectories.py: the letters argument as given
    letters,        \* the letters after line 101
    unique_subdirs, \* the set of lines 102 and 63
    walk,           \* what search_path.rglob('*') has still to yield (line 104)
    output_file,    \* the lines of the output file, once it is written
    logged,         \* history: the errors logged at lines 65-67 and 111-113
    listPc,         \* where list_subdirectories and its caller main stand
    list_printed,   \* what main of list_subdirectories.py has printed
    exit_status,    \* exit status of list_subdirectories.py; -1 while it runs
    td,             \* the timedelta handed to format_time_delta
    formatted       \* the parts of the string it returned; <<>> before the call

ledgerVars == <<ledger, now, run, lastRecord, initLedger, recorded, calls, firstWrite>>
configVars == <<MKVMERGE_EXECUTABLE, INPUT_DIRECTORIES, FILE_EXTENSIONS, given_directories>>
runVars == <<pc, dirIdx, ext_files, processedDirs, outputs, attempts, scanned, printed, preRun>>
listVars == <<given_letters, letters, unique_subdirs, walk, output_file, logged, listPc,
              list_printed, exit_status>>
formatVars == <<td, formatted>>
otherVars == <<firstRun, writers, listVars, formatVars>>
vars == <<ledgerVars, configVars, runVars, otherVars>>

----------------------------------------------------------------------------
(* Bounds *)

MaxClock == 1       \* the clock runs 0..MaxClock
MaxRecords == 3     \* record calls in one LedgerSpec behaviour
MaxRuns == 2        \* sequential processes in LedgerSpec
MaxDirs == 2        \* entries of config['input_directories']
MaxLetters == 2     \* entries of the letters argument of list_subdirectories.py
MaxDays == 800      \* td.days runs 0..MaxDays

Stores == {"success", "error"}

\* file_suffix of line 126
FileSuffix(is_success) == IF is_success THEN "success" ELSE "error"

----------------------------------------------------------------------------
(* Ledger files.  A file is absent, empty (size 0), text that json.load    *)
(* rejects, or a JSON document.  A document is a top-level array/scalar or *)
(* an object; an object may hold the store's root key and may hold other   *)
(* top-level entries.                                                      *)

NoRoot == [kind |-> "none", created_date |-> 0, updated_date |-> 0,
           count |-> 0, messages |-> <<>>]

File(kind, other, root) == [kind |-> kind, other |-> other, root |-> root]

AbsentFile  == File("absent", FALSE, NoRoot)
EmptyFile   == File("empty", FALSE, NoRoot)
GarbageFile == File("garbage", FALSE, NoRoot)
ArrayFile   == File("array", FALSE, NoRoot)

\* The value json.load returns for a file holding a JSON object
ObjectFile(other, root) == File("object", other, root)

\* data = {} of line 137
EmptyData == ObjectFile(FALSE, NoRoot)

Store(created, updated, count, messages) ==
    [kind |-> "store", created_date |-> created, updated_date |-> updated,
     count |-> count, messages |-> messages]

\* new_message of line 133: one timestamped entry
NewMessage(message, current_time) ==
    <<[timestamp |-> current_time, message |-> message]>>

\* A root value that is an object without a "messages" list, or no object
RootNoMessages == [NoRoot EXCEPT !.kind = "nomessages"]
RootScalar     == [NoRoot EXCEPT !.kind = "scalar"]

\* A message names its kind, the file it is about and the file saved
NoName == [stem |-> "", ext |-> ""]
Message(kind, file, saved) == [kind |-> kind, file |-> file, saved |-> saved]

OldMessage == Message("old", NoName, NoName)

\* A store as an earlier run of the program left it
OldStore == Store(0, 0, 1, NewMessage(OldMessage, 0))

\* Stores whose count disagrees with their messages (written by other hands)
SkewedStores == {Store(0, 0, 2, <<>>), Store(0, 0, 0, NewMessage(OldMessage, 0))}

\* Files the program itself leaves, or that fail to parse
PlainFiles == {AbsentFile, EmptyFile, GarbageFile, ObjectFile(FALSE, OldStore)}

\* Documents that parse but are not shaped as a ledger store
MisshapenFiles ==
    {ArrayFile, ObjectFile(TRUE, NoRoot), ObjectFile(FALSE, RootNoMessages),
     ObjectFile(FALSE, RootScalar)}
    \cup {ObjectFile(FALSE, s) : s \in SkewedStores}

AnyFiles == PlainFiles \cup MisshapenFiles

\* The ledgers a run starts from: none yet, those of an earlier run, or
\* files that do not parse
RunLedgers ==
    {[s \in Stores |-> AbsentFile],
     [s \in Stores |-> ObjectFile(FALSE, OldStore)],
     [s \in Stores |-> IF s = "success" THEN GarbageFile ELSE EmptyFile]}

----------------------------------------------------------------------------
(* _write_or_append_to_json, lines 113-162 *)

\* Lines 137-145: data starts as {}; an existing, non-empty file is parsed,
\* and a JSONDecodeError leaves data = {}.
LoadJson(file) ==
    CASE file.kind = "absent"  -> EmptyData
      [] file.kind = "empty"   -> EmptyData
      [] file.kind = "garbage" -> EmptyData
      [] OTHER                 -> file

AppendToStoreNoCount(root, new_message, current_time) ==
    [root EXCEPT !.updated_date = current_time,
                 !.messages = root.messages \o new_message,
                 !.count = root.count + 1]

AppendToStoreReplace(root, new_message, current_time) ==
    [root EXCEPT !.updated_date = current_time,
                 !.messages = new_message,
                 !.count = Len(new_message)]

\* Lines 149-151: refresh updated_date, extend messages, recount
AppendToStore(root, new_message, current_time) ==
    [root EXCEPT !.updated_date = current_time,
                 !.messages = root.messages \o new_message,
                 !.count = Len(root.messages \o new_message)]

NewStoreEpoch(new_message, current_time) ==
    Store(0, current_time, Len(new_message), new_message)

\* Lines 153-158: a fresh store
NewStore(new_message, current_time) ==
    Store(current_time, current_time, Len(new_message), new_message)

\* Whether lines 148-158 raise on the loaded data: `root_key in data` and
\* item assignment need a dict (a list fails at line 153 with TypeError),
\* and lines 149-151 need data[root_key] to be a dict with a "messages" list.
UpdateRaises(data) ==
    \/ data.kind # "object"
    \/ data.root.kind \in {"nomessages", "scalar"}

UpdateDataAlwaysNew(data, new_message, current_time) ==
    [data EXCEPT !.root = NewStore(new_message, current_time)]

\* Lines 148-158 on data that does not raise
UpdateData(data, new_message, current_time) ==
    IF data.root.kind = "store"
    THEN [data EXCEPT !.root = AppendToStore(data.root, new_message, current_time)]
    ELSE [data EXCEPT !.root = NewStore(new_message, current_time)]

WriteRootOnly(file, message, current_time) ==
    LET data == LoadJson(file) IN
    IF UpdateRaises(data)
    THEN [raised |-> TRUE, file |-> file]
    ELSE [raised |-> FALSE,
          file |-> ObjectFile(FALSE,
              UpdateData(data, NewMessage(message, current_time), current_time).root)]

\* The whole method on one file: the file written at lines 161-162, or the
\* file untouched when an exception leaves the method before line 161.
write_or_append_to_json(file, message, current_time) ==
    LET data == LoadJson(file) IN
    IF UpdateRaises(data)
    THEN [raised |-> TRUE, file |-> file]
    ELSE [raised |-> FALSE,
          file |-> UpdateData(data, NewMessage(message, current_time), current_time)]

\* Reading a store back: the root value of a parseable ledger file
ReadStore(file) == LoadJson(file).root

\* The message texts of a store, in order
MessageTexts(root) == [i \in 1..Len(root.messages) |-> root.messages[i].message]

----------------------------------------------------------------------------
(* The environment of a run: paths on disk and what the os.path functions  *)
(* say about them.                                                         *)

Directories  == {"dirA", "dirB"}        \* directories that exist
RegularFiles == {"mkvmerge", "afile"}   \* regular files that exist
curdir == "."                           \* os.curdir

\* Values config['input_directories'] entries are drawn from
GivenDirectories == {"", "./", " ", "missing", "afile", "dirA", "dirB"}
\* Values config['mkvmerge_executable'] is drawn from
GivenExecutables == {"mkvmerge", "missing", "dirA"}
\* Values config['file_extensions'] is drawn from
ExtensionLists == {<<>>, <<"mkv">>, <<"mkv", "mp4">>, <<"mkv", "mkv">>}

\* os.path.normpath on the paths above: "" and "./" become "."
normpath(path) == IF path \in {"", "./", "."} THEN "." ELSE path

\* str.strip on the paths above
strip(path) == IF path = " " THEN "" ELSE path

IsDirAlways(path) == TRUE

\* os.path.isdir
isdir(path) == path \in Directories \cup {curdir}

\* os.path.isfile
isfile(path) == path \in RegularFiles

Entry(stem, ext) == [stem |-> stem, ext |-> ext]

\* The immediate children of a directory, in enumeration order
DirEntries(dir) ==
    CASE dir = "dirA" -> <<Entry("movie", "mkv"), Entry("movie", "mp4"),
                          Entry("notes", "txt")>>
      [] dir = "dirB" -> <<Entry("clip", "mp4"), Entry("extras", "mp4")>>
      [] OTHER        -> <<>>

\* The children of a directory on disk that are themselves directories
StaticDirectories(dir) == IF dir = "dirB" THEN {Entry("extras", "mp4")} ELSE {}

\* The directory process_directory names at line 265
PROCESSED_FILES == Entry("processed_files", "")

\* The immediate children of a directory as the run finds them: those on
\* disk from the start and, once made, its processed_files directory
Children(dir) ==
    DirEntries(dir) \o (IF dir \in processedDirs THEN <<PROCESSED_FILES>> ELSE <<>>)

ChildDirectories(dir) ==
    StaticDirectories(dir) \cup (IF dir \in processedDirs THEN {PROCESSED_FILES} ELSE {})

RECURSIVE SeqOf(_)
SeqOf(S) == IF S = {} THEN <<>>
            ELSE LET x == CHOOSE x \in S : TRUE IN <<x>> \o SeqOf(S \ {x})

\* What lies one level further down: the outputs inside processed_files
Nested(dir) ==
    SeqOf({Entry(o.path.stem, o.path.ext) : o \in {q \in outputs : q.path.dir = dir}})

GlobRecursive(input_dir, ext) ==
    LET Matches(e) == e.ext = ext
    IN SelectSeq(Children(input_dir) \o Nested(input_dir), Matches)

\* pathlib.Path(input_dir).glob('*.ext'), line 263: every immediate child
\* whose name ends in .ext, whatever kind of entry it is
glob(input_dir, ext) ==
    LET Matches(e) == e.ext = ext IN SelectSeq(Children(input_dir), Matches)

\* Lines 261-263: one glob per configured extension, results concatenated
RECURSIVE ExtFiles(_, _)
ExtFiles(input_dir, extensions) ==
    IF extensions = <<>> THEN <<>>
    ELSE glob(input_dir, Head(extensions)) \o ExtFiles(input_dir, Tail(extensions))

\* config['output_extension'], without its dot
OUTPUT_EXTENSION == "mkv"

OutputPathKeepsExtension(input_dir, ext_file) ==
    [dir |-> input_dir, stem |-> ext_file.stem, ext |-> ext_file.ext]

\* Lines 243 and 265: input_dir/processed_files/{stem}{OUTPUT_EXTENSION}
OutputPath(input_dir, ext_file) ==
    [dir |-> input_dir, stem |-> ext_file.stem, ext |-> OUTPUT_EXTENSION]

\* How subprocess.run(command, check=True) can end: exit status zero, a
\* CalledProcessError for a nonzero status, an OSError when the process
\* cannot be launched.
ToolResults == {"zero", "nonzero", "nolaunch"}

\* mkvmerge given a directory as its input cannot exit with status zero
ToolResultsFor(input_dir, ext_file) ==
    IF ext_file \in ChildDirectories(input_dir) THEN ToolResults \ {"zero"}
    ELSE ToolResults

CaughtNever(tool_result) == FALSE

\* The except clause of line 219 catches subprocess.CalledProcessError only
Caught(tool_result) == tool_result = "nonzero"

CheckExecutablesAlways(executable) == TRUE

\* check_executables, lines 177-184: the value it returns
check_executables(executable) == isfile(executable)

\* Lines 295-308: the three tests that skip a configured directory
Skipped(input_dir) ==
    \/ strip(input_dir) = ""
    \/ normpath(input_dir) = normpath(curdir)
    \/ ~isdir(input_dir)

\* Ledger and disk, as remembered at the start of a run
Snapshot == [ledger |-> ledger, processedDirs |-> processedDirs, outputs |-> outputs]

Attempt(d, input_dir, ext_file, result) ==
    [d |-> d, dir |-> input_dir, file |-> ext_file, result |-> result]

----------------------------------------------------------------------------
(* History kept beside a record call on store s *)

RecordOn(s, message) ==
    LET r == write_or_append_to_json(ledger[s], message, now) IN
    /\ ledger' = [ledger EXCEPT ![s] = r.file]
    /\ lastRecord' = IF r.raised THEN "raised" ELSE "completed"
    /\ calls' = [calls EXCEPT ![s] = @ + 1]
    /\ recorded' = IF r.raised THEN recorded
                   ELSE [recorded EXCEPT ![s] = Append(@, message)]
    /\ firstWrite' = IF r.raised \/ recorded[s] # <<>> THEN firstWrite
                     ELSE [firstWrite EXCEPT ![s] = now]

NoRecord == UNCHANGED <<ledger, lastRecord, calls, recorded, firstWrite>>

\* datetime.now() moves on between two reads
Tick ==
    /\ now < MaxClock
    /\ now' = now + 1
    /\ UNCHANGED <<ledger, run, lastRecord, initLedger, recorded, calls, firstWrite>>
    /\ UNCHANGED <<configVars, otherVars, runVars>>

LedgerInit(ledgers) ==
    /\ ledger \in ledgers
    /\ initLedger = ledger
    /\ now = 0
    /\ run = 1
    /\ lastRecord = "none"
    /\ recorded = [s \in Stores |-> <<>>]
    /\ calls = [s \in Stores |-> 0]
    /\ firstWrite = [s \in Stores |-> 0]

\* A process that has not begun run()
RunIdle ==
    /\ pc = "NotStarted"
    /\ dirIdx = 0
    /\ ext_files = <<>>
    /\ attempts = <<>>
    /\ scanned = {}
    /\ printed = {}

\* __init__, lines 104-106
ConfigInit(executables, directory_lists, extension_lists) ==
    /\ \E executable \in executables : MKVMERGE_EXECUTABLE = normpath(executable)
    /\ given_directories \in directory_lists
    /\ INPUT_DIRECTORIES =
          [i \in 1..Len(given_directories) |-> normpath(given_directories[i])]
    /\ FILE_EXTENSIONS \in extension_lists

DiskInit ==
    /\ processedDirs = {}
    /\ outputs = {}
    /\ preRun = Snapshot

\* No run came before
NoRun == [attempts |-> <<>>, before |-> [s \in Stores |-> AbsentFile]]

\* The processes that run the program side by side in RaceSpec
Procs == {"run1", "run2"}

\* A process outside _write_or_append_to_json
NotWriting == [pc |-> "idle", store |-> "success", data |-> EmptyData, time |-> 0]

\* The output file of list_subdirectories.py before line 107 has opened it
NoOutput == [written |-> FALSE, lines |-> <<>>]

\* list_subdirectories.py not yet in list_subdirectories
ListIdle(letter_lists) ==
    /\ given_letters \in letter_lists
    /\ letters = <<>>
    /\ unique_subdirs = {}
    /\ walk = <<>>
    /\ output_file = NoOutput
    /\ logged = {}
    /\ listPc = "NotStarted"
    /\ list_printed = {}
    /\ exit_status = -1

\* One run of the program alone
SingleRun ==
    /\ firstRun = NoRun
    /\ writers = [p \in Procs |-> NotWriting]

\* timedelta(days, seconds, microseconds), normalised as the class keeps it
timedelta(days, seconds, microseconds) ==
    [days |-> days, seconds |-> seconds, microseconds |-> microseconds]

\* format_time_delta not yet called, on one of the given time deltas
FormatIdle(deltas) ==
    /\ td \in deltas
    /\ formatted = <<>>

OthersIdle ==
    /\ SingleRun
    /\ ListIdle({<<>>})
    /\ FormatIdle({timedelta(0, 0, 0)})

----------------------------------------------------------------------------
(* LedgerSpec: record(message, is_success) called by successive processes  *)

LedgerMessages ==
    {Message("removed", Entry("movie", "mkv"), Entry("movie", "mkv")),
     Message("error", Entry("clip", "mp4"), NoName)}

Record(message, is_success) ==
    /\ lastRecord # "raised"
    /\ calls["success"] + calls["error"] < MaxRecords
    /\ RecordOn(FileSuffix(is_success), message)
    /\ UNCHANGED <<now, run, initLedger, configVars, otherVars, runVars>>

\* The process ends (an exception ends it at once) and a later run starts
LedgerNextRun ==
    /\ run < MaxRuns
    /\ run' = run + 1
    /\ lastRecord' = "none"
    /\ UNCHANGED <<ledger, now, initLedger, recorded, calls, firstWrite>>
    /\ UNCHANGED <<configVars, otherVars, runVars>>

LedgerInitial ==
    /\ LedgerInit([Stores -> AnyFiles])
    /\ ConfigInit({"mkvmerge"}, {<<>>}, {<<>>})
    /\ RunIdle
    /\ DiskInit
    /\ OthersIdle

LedgerNext ==
    \/ \E message \in LedgerMessages, is_success \in BOOLEAN :
          Record(message, is_success)
    \/ Tick
    \/ LedgerNextRun

LedgerSpec == LedgerInitial /\ [][LedgerNext]_vars

----------------------------------------------------------------------------
(* Spec: MKVProcessor.run, lines 270-325, one run after another            *)

\* Lines 284-288 with check_executables: print the start time, then either
\* enter the directory loop or record the missing executable (lines 181-183)
StartRun ==
    /\ pc = "NotStarted"
    /\ printed' = printed \cup {"start"}
    /\ IF check_executables(MKVMERGE_EXECUTABLE)
       THEN /\ pc' = "DirectoryLoop"
            /\ dirIdx' = 1
            /\ NoRecord
       ELSE /\ RecordOn("error",
                  Message("noexe", Entry(MKVMERGE_EXECUTABLE, ""), NoName))
            /\ pc' = IF lastRecord' = "raised" THEN "Raised" ELSE "Aborted"
            /\ dirIdx' = dirIdx
    /\ UNCHANGED <<now, run, initLedger, configVars, otherVars>>
    /\ UNCHANGED <<ext_files, processedDirs, outputs, attempts, scanned, preRun>>

\* Lines 293-308: an entry that fails one of the three tests is passed over
SkipDirectory ==
    /\ pc = "DirectoryLoop"
    /\ dirIdx <= Len(INPUT_DIRECTORIES)
    /\ Skipped(INPUT_DIRECTORIES[dirIdx])
    /\ dirIdx' = dirIdx + 1
    /\ UNCHANGED <<ledgerVars, configVars, otherVars>>
    /\ UNCHANGED <<pc, ext_files, processedDirs, outputs, attempts, scanned, printed, preRun>>

\* Lines 310-311 and 261-265: process_directory collects ext_files
ProcessDirectory ==
    /\ pc = "DirectoryLoop"
    /\ dirIdx <= Len(INPUT_DIRECTORIES)
    /\ ~Skipped(INPUT_DIRECTORIES[dirIdx])
    /\ ext_files' = ExtFiles(INPUT_DIRECTORIES[dirIdx], FILE_EXTENSIONS)
    /\ scanned' = scanned \cup {dirIdx}
    /\ pc' = "FileLoop"
    /\ UNCHANGED <<ledgerVars, configVars, otherVars>>
    /\ UNCHANGED <<dirIdx, processedDirs, outputs, attempts, printed, preRun>>

\* One turn of the loop of lines 267-268: process_file (lines 239-245) and
\* remove_title_keep_english_subs (lines 204-223) on the next file.
\* makedirs_ok: whether os.makedirs succeeds, when it is called;
\* tool_result: how subprocess.run ends.
ProcessFile(makedirs_ok, tool_result) ==
    /\ pc = "FileLoop"
    /\ ext_files # <<>>
    /\ tool_result \in ToolResultsFor(INPUT_DIRECTORIES[dirIdx], Head(ext_files))
    /\ LET input_dir == INPUT_DIRECTORIES[dirIdx]
           ext_file  == Head(ext_files)
           output_path == OutputPath(input_dir, ext_file)
       IN
       IF input_dir \notin processedDirs /\ ~makedirs_ok
       THEN \* os.makedirs raises at line 240 and nothing catches it
            /\ pc' = "Raised"
            /\ attempts' = Append(attempts, Attempt(dirIdx, input_dir, ext_file, "mkdirfail"))
            /\ NoRecord
            /\ UNCHANGED <<ext_files, processedDirs, outputs>>
       ELSE /\ processedDirs' = processedDirs \cup {input_dir}
            /\ attempts' = Append(attempts, Attempt(dirIdx, input_dir, ext_file, tool_result))
            /\ IF tool_result = "zero"
               THEN \* lines 211-218
                    /\ outputs' = {o \in outputs : o.path # output_path}
                                     \cup {[path |-> output_path, from |-> ext_file]}
                    /\ RecordOn("success", Message("removed", ext_file,
                                   Entry(output_path.stem, output_path.ext)))
                    /\ pc' = IF lastRecord' = "raised" THEN "Raised" ELSE "FileLoop"
                    /\ ext_files' = Tail(ext_files)
               ELSE IF Caught(tool_result)
               THEN \* lines 219-223
                    /\ RecordOn("error", Message("error", ext_file, NoName))
                    /\ pc' = IF lastRecord' = "raised" THEN "Raised" ELSE "FileLoop"
                    /\ ext_files' = Tail(ext_files)
                    /\ UNCHANGED outputs
               ELSE \* the exception leaves run()
                    /\ pc' = "Raised"
                    /\ NoRecord
                    /\ UNCHANGED <<ext_files, outputs>>
    /\ UNCHANGED <<now, run, initLedger, configVars, otherVars>>
    /\ UNCHANGED <<dirIdx, scanned, printed, preRun>>

\* The loop of lines 267-268 is exhausted: back to the loop of line 293
EndDirectory ==
    /\ pc = "FileLoop"
    /\ ext_files = <<>>
    /\ pc' = "DirectoryLoop"
    /\ dirIdx' = dirIdx + 1
    /\ UNCHANGED <<ledgerVars, configVars, otherVars>>
    /\ UNCHANGED <<ext_files, processedDirs, outputs, attempts, scanned, printed, preRun>>

\* Lines 313-325: the summary or the exit notice, then end time and
\* execution time
FinishRun ==
    /\ \/ pc = "Aborted"
       \/ pc = "DirectoryLoop" /\ dirIdx > Len(INPUT_DIRECTORIES)
    /\ pc' = "Finished"
    /\ printed' = printed \cup {"end", "elapsed"}
    /\ UNCHANGED <<ledgerVars, configVars, otherVars>>
    /\ UNCHANGED <<dirIdx, ext_files, processedDirs, outputs, attempts, scanned, preRun>>

RECURSIVE SeqsUpTo(_, _)
SeqsUpTo(S, n) ==
    IF n = 0 THEN {<<>>}
    ELSE LET shorter == SeqsUpTo(S, n - 1) IN
         shorter \cup {Append(q, x) : q \in shorter, x \in S}

Init ==
    /\ LedgerInit(RunLedgers)
    /\ ConfigInit(GivenExecutables, SeqsUpTo(GivenDirectories, MaxDirs), ExtensionLists)
    /\ RunIdle
    /\ DiskInit
    /\ OthersIdle

Next ==
    \/ StartRun
    \/ SkipDirectory
    \/ ProcessDirectory
    \/ \E makedirs_ok \in BOOLEAN, tool_result \in ToolResults :
          ProcessFile(makedirs_ok, tool_result)
    \/ EndDirectory
    \/ FinishRun
    \/ Tick

Spec == Init /\ [][Next]_vars

\* The steps of run() that are plain code always go on; a call of the
\* external tool (ProcessFile) may block for ever, and the clock owes nothing
FairSpec ==
    /\ Spec
    /\ WF_vars(StartRun)
    /\ WF_vars(SkipDirectory)
    /\ WF_vars(ProcessDirectory)
    /\ WF_vars(EndDirectory)
    /\ WF_vars(FinishRun)

----------------------------------------------------------------------------
(* RerunSpec: the program run a second time on the same configuration and  *)
(* the same input directories, where the tool and the file system answer   *)
(* the second run as they answered the first.  What a run attempts and     *)
(* how many messages it adds do not depend on the clock, which stands      *)
(* still here.                                                             *)

\* Directory entries the reruns are configured with
RerunDirectories == {"missing", "dirA", "dirB"}

\* Executable paths the reruns are configured with
RerunExecutables == {"mkvmerge", "missing"}

\* The process has ended, by the end of run() or by an exception; the same
\* command is started again (__main__, lines 343-354)
Rerun ==
    /\ pc \in {"Finished", "Raised"}
    /\ run = 1
    /\ run' = 2
    /\ firstRun' = [attempts |-> attempts, before |-> preRun.ledger]
    /\ preRun' = Snapshot
    /\ pc' = "NotStarted"
    /\ dirIdx' = 0
    /\ ext_files' = <<>>
    /\ attempts' = <<>>
    /\ scanned' = {}
    /\ printed' = {}
    /\ lastRecord' = "none"
    /\ UNCHANGED <<ledger, now, initLedger, recorded, calls, firstWrite>>
    /\ UNCHANGED <<configVars, processedDirs, outputs, writers, listVars, formatVars>>

\* In the second run os.makedirs and the tool end, call for call, as they
\* ended in the first
AsBefore(makedirs_ok, tool_result) ==
    LET k == Len(attempts) + 1 IN
    (run = 2 /\ k <= Len(firstRun.attempts)) =>
        IF firstRun.attempts[k].result = "mkdirfail" THEN ~makedirs_ok
        ELSE makedirs_ok /\ tool_result = firstRun.attempts[k].result

RerunInit ==
    /\ LedgerInit(RunLedgers)
    /\ ConfigInit(RerunExecutables, SeqsUpTo(RerunDirectories, MaxDirs), ExtensionLists)
    /\ RunIdle
    /\ DiskInit
    /\ OthersIdle

RerunNext ==
    \/ StartRun
    \/ SkipDirectory
    \/ ProcessDirectory
    \/ \E makedirs_ok \in BOOLEAN, tool_result \in ToolResults :
          /\ AsBefore(makedirs_ok, tool_result)
          /\ ProcessFile(makedirs_ok, tool_result)
    \/ EndDirectory
    \/ FinishRun
    \/ Rerun

RerunSpec == RerunInit /\ [][RerunNext]_vars

----------------------------------------------------------------------------
(* StepSpec: the same run with process_file and                            *)
(* remove_title_keep_english_subs taken one statement at a time, beside    *)
(* other processes that make directories of their own accord.              *)

StepDirectories == {"missing", "dirA", "dirB"}
StepExecutables == {"mkvmerge", "missing"}

\* Line 239: if not os.path.exists(output_dir)
CheckOutputDir ==
    /\ pc = "FileLoop"
    /\ ext_files # <<>>
    /\ pc' = IF INPUT_DIRECTORIES[dirIdx] \in processedDirs THEN "Launch"
             ELSE "MakeDirs"
    /\ UNCHANGED <<ledgerVars, configVars, otherVars>>
    /\ UNCHANGED <<dirIdx, ext_files, processedDirs, outputs, attempts, scanned, printed, preRun>>

\* Line 240: os.makedirs(output_dir), which raises FileExistsError when the
\* directory is there by now and may raise another OSError (makedirs_ok)
MakeDirs(makedirs_ok) ==
    /\ pc = "MakeDirs"
    /\ LET input_dir == INPUT_DIRECTORIES[dirIdx]
           ext_file  == Head(ext_files)
       IN
       IF input_dir \in processedDirs
       THEN /\ pc' = "Raised"
            /\ attempts' = Append(attempts, Attempt(dirIdx, input_dir, ext_file, "mkdirexists"))
            /\ UNCHANGED processedDirs
       ELSE IF ~makedirs_ok
       THEN /\ pc' = "Raised"
            /\ attempts' = Append(attempts, Attempt(dirIdx, input_dir, ext_file, "mkdirfail"))
            /\ UNCHANGED processedDirs
       ELSE /\ pc' = "Launch"
            /\ processedDirs' = processedDirs \cup {input_dir}
            /\ UNCHANGED attempts
    /\ UNCHANGED <<ledgerVars, configVars, otherVars>>
    /\ UNCHANGED <<dirIdx, ext_files, outputs, scanned, printed, preRun>>

AfterLaunchNoWait == "FileLoop"

\* subprocess.run (line 209) returns only when the child has ended
AfterLaunch == "Waiting"

\* Lines 204-209: the command is built and the child process started
LaunchTool(launched) ==
    /\ pc = "Launch"
    /\ LET input_dir == INPUT_DIRECTORIES[dirIdx]
           ext_file  == Head(ext_files)
       IN
       IF launched
       THEN /\ attempts' = Append(attempts, Attempt(dirIdx, input_dir, ext_file, "running"))
            /\ pc' = AfterLaunch
       ELSE \* OSError from subprocess.run: nothing catches it
            /\ attempts' = Append(attempts, Attempt(dirIdx, input_dir, ext_file, "nolaunch"))
            /\ pc' = "Raised"
    /\ UNCHANGED <<ledgerVars, configVars, otherVars>>
    /\ UNCHANGED <<dirIdx, ext_files, processedDirs, outputs, scanned, printed, preRun>>

\* Lines 209-223: the child ends, and the outcome is recorded before
\* process_file returns to the loop of line 267
ToolExits(tool_result) ==
    /\ pc = "Waiting"
    /\ tool_result \in ToolResultsFor(INPUT_DIRECTORIES[dirIdx], Head(ext_files)) \ {"nolaunch"}
    /\ LET input_dir == INPUT_DIRECTORIES[dirIdx]
           ext_file  == Head(ext_files)
           output_path == OutputPath(input_dir, ext_file)
       IN
       /\ attempts' = [attempts EXCEPT ![Len(attempts)].result = tool_result]
       /\ IF tool_result = "zero"
          THEN /\ outputs' = {o \in outputs : o.path # output_path}
                                \cup {[path |-> output_path, from |-> ext_file]}
               /\ RecordOn("success", Message("removed", ext_file,
                              Entry(output_path.stem, output_path.ext)))
          ELSE /\ RecordOn("error", Message("error", ext_file, NoName))
               /\ UNCHANGED outputs
       /\ pc' = IF lastRecord' = "raised" THEN "Raised" ELSE "FileLoop"
       /\ ext_files' = Tail(ext_files)
    /\ UNCHANGED <<now, run, initLedger, configVars, otherVars>>
    /\ UNCHANGED <<dirIdx, processedDirs, scanned, printed, preRun>>

\* Another process (a second run of the program, or anything else) makes
\* the processed_files directory of an input directory
OtherMakesDir(dir) ==
    /\ dir \notin processedDirs
    /\ processedDirs' = processedDirs \cup {dir}
    /\ UNCHANGED <<ledgerVars, configVars, otherVars>>
    /\ UNCHANGED <<pc, dirIdx, ext_files, outputs, attempts, scanned, printed, preRun>>

StepInit ==
    /\ LedgerInit({[s \in Stores |-> AbsentFile],
                   [s \in Stores |-> ObjectFile(FALSE, OldStore)]})
    /\ ConfigInit(StepExecutables, SeqsUpTo(StepDirectories, MaxDirs), ExtensionLists)
    /\ RunIdle
    /\ DiskInit
    /\ OthersIdle

StepNext ==
    \/ StartRun
    \/ SkipDirectory
    \/ ProcessDirectory
    \/ CheckOutputDir
    \/ \E makedirs_ok \in BOOLEAN : MakeDirs(makedirs_ok)
    \/ \E launched \in BOOLEAN : LaunchTool(launched)
    \/ \E tool_result \in ToolResults : ToolExits(tool_result)
    \/ EndDirectory
    \/ FinishRun
    \/ \E dir \in Directories : OtherMakesDir(dir)

StepSpec == StepInit /\ [][StepNext]_vars

----------------------------------------------------------------------------
(* RaceSpec: two processes run the program at the same time and call       *)
(* _write_or_append_to_json on the same ledger files, the statements of    *)
(* one call interleaved with those of the other.                           *)

\* The outcome each process records, over and over
MessageOf(p) ==
    IF p = "run1" THEN Message("removed", Entry("movie", "mkv"), Entry("movie", "mkv"))
    ELSE Message("removed", Entry("clip", "mp4"), Entry("clip", "mkv"))

\* Lines 126-145: the file is chosen, the clock read, the file loaded
LoadStep(p, is_success) ==
    /\ writers[p].pc = "idle"
    /\ calls["success"] + calls["error"] < MaxRecords
    /\ LET s == FileSuffix(is_success) IN
       /\ writers' = [writers EXCEPT ![p] =
             [pc |-> "loaded", store |-> s, data |-> LoadJson(ledger[s]), time |-> now]]
       /\ calls' = [calls EXCEPT ![s] = @ + 1]
    /\ UNCHANGED <<ledger, now, run, lastRecord, initLedger, recorded, firstWrite>>
    /\ UNCHANGED <<configVars, runVars, firstRun, listVars, formatVars>>

\* Lines 148-161: the loaded data is updated in memory and the file opened
\* with mode 'w', which empties it; an exception of lines 148-158 ends the
\* process
OpenStep(p) ==
    /\ writers[p].pc = "loaded"
    /\ LET w == writers[p] IN
       IF UpdateRaises(w.data)
       THEN /\ writers' = [writers EXCEPT ![p].pc = "raised"]
            /\ UNCHANGED ledger
       ELSE /\ writers' = [writers EXCEPT ![p].pc = "opened",
                  ![p].data = UpdateData(w.data, NewMessage(MessageOf(p), w.time), w.time)]
            /\ ledger' = [ledger EXCEPT ![w.store] = EmptyFile]
    /\ UNCHANGED <<now, run, lastRecord, initLedger, recorded, calls, firstWrite>>
    /\ UNCHANGED <<configVars, runVars, firstRun, listVars, formatVars>>

\* Line 162: json.dump writes the whole document and the call returns
DumpStep(p) ==
    /\ writers[p].pc = "opened"
    /\ LET w == writers[p] IN
       /\ ledger' = [ledger EXCEPT ![w.store] = w.data]
       /\ recorded' = [recorded EXCEPT ![w.store] = Append(@, MessageOf(p))]
       /\ writers' = [writers EXCEPT ![p] = NotWriting]
    /\ UNCHANGED <<now, run, lastRecord, initLedger, calls, firstWrite>>
    /\ UNCHANGED <<configVars, runVars, firstRun, listVars, formatVars>>

RaceInit ==
    /\ LedgerInit(RunLedgers)
    /\ ConfigInit({"mkvmerge"}, {<<"dirA">>}, {<<"mkv", "mp4">>})
    /\ RunIdle
    /\ DiskInit
    /\ OthersIdle

RaceNext ==
    \/ \E p \in Procs, is_success \in BOOLEAN : LoadStep(p, is_success)
    \/ \E p \in Procs : OpenStep(p)
    \/ \E p \in Procs : DumpStep(p)
    \/ Tick

RaceSpec == RaceInit /\ [][RaceNext]_vars

----------------------------------------------------------------------------
(* ListSpec: list_subdirectories.py, list_subdirectories (lines 85-113)    *)
(* with process_directory and write_subdirectories.  A string is the       *)
(* sequence of its code points, a path the sequence of its names.          *)

NameAl   == <<65, 108>>         \* "Al"
NameA    == <<97>>              \* "a"
NameAB   == <<97, 45, 98>>      \* "a-b"
NameB    == <<98>>              \* "b"
NameZ    == <<122>>             \* "z"
NameAf   == <<97, 102>>         \* "af"

\* The directories and the files below the search path
TreeDirs ==
    {<<NameAl>>, <<NameAl, NameZ>>, <<NameAl, NameZ, NameA>>,
     <<NameAl, NameZ, NameA, NameB>>,
     <<NameAB>>, <<NameAB, NameZ>>,
     <<NameA>>, <<NameA, NameZ>>,
     <<NameB>>, <<NameB, NameAl>>}
TreeFiles == {<<NameAl, NameAf>>, <<NameAf>>}
TreeNodes == TreeDirs \cup TreeFiles

\* The search path itself
SearchPath == <<>>

\* Values the letters argument is drawn from: "a", "A", "b", "q", "aL"
GivenLetters == {<<97>>, <<65>>, <<98>>, <<113>>, <<97, 76>>}

LowerIdentity(string) == string

\* str.lower on ASCII text
lower(string) ==
    [i \in DOMAIN string |->
        IF string[i] \in 65..90 THEN string[i] + 32 ELSE string[i]]

\* str.startswith
startswith(string, prefix) ==
    /\ Len(prefix) <= Len(string)
    /\ SubSeq(string, 1, Len(prefix)) = prefix

\* Path.is_dir
is_dir(path) == path \in TreeDirs

\* str(path) for a path below the search path '.': the names joined by "/"
RECURSIVE Str(_)
Str(path) ==
    IF Len(path) = 1 THEN path[1]
    ELSE path[1] \o <<47>> \o Str(Tail(path))

\* Path.rglob('*'): everything strictly below path, in the order of SeqOf
rglob(path) ==
    SeqOf({n \in TreeNodes : Len(n) > Len(path) /\ SubSeq(n, 1, Len(path)) = path})

\* The order of str values: code point by code point, a prefix first
RECURSIVE StrLessEq(_, _)
StrLessEq(a, b) ==
    IF a = <<>> THEN TRUE
    ELSE IF b = <<>> THEN FALSE
    ELSE IF Head(a) < Head(b) THEN TRUE
    ELSE IF Head(a) > Head(b) THEN FALSE
    ELSE StrLessEq(Tail(a), Tail(b))

\* sorted(unique_subdirs), line 108
RECURSIVE sorted(_)
sorted(strings) ==
    IF strings = {} THEN <<>>
    ELSE LET least == CHOOSE x \in strings : \A y \in strings : StrLessEq(x, y)
         IN <<least>> \o sorted(strings \ {least})

\* write_subdirectories, lines 60-63, where rglob yields its first n paths
\* (all of them unless an OSError ends the loop): the set afterwards
write_subdirectories(root, subdirs, n) ==
    subdirs \cup {Str(rglob(root)[i]) :
                    i \in {j \in 1..n : is_dir(rglob(root)[j]) /\ rglob(root)[j] # root}}

\* The test of process_directory, line 82
StartsWithLetter(root, lowered) ==
    /\ is_dir(root)
    /\ \E k \in DOMAIN lowered : startswith(lower(root[Len(root)]), lowered[k])

\* Where list_subdirectories stands after an OSError inside its try: both
\* except clauses (lines 110-113) log the error and the function returns
AfterOSError == "Done"

\* main, lines 189-205, then line 101 and the beginning of the loop of
\* line 104
ListStart ==
    /\ listPc = "NotStarted"
    /\ letters' = [i \in DOMAIN given_letters |-> lower(given_letters[i])]
    /\ unique_subdirs' = {}
    /\ walk' = rglob(SearchPath)
    /\ listPc' = "Walking"
    /\ list_printed' = list_printed \cup {"started"}
    /\ UNCHANGED <<given_letters, output_file, logged, exit_status>>
    /\ UNCHANGED <<ledgerVars, configVars, runVars, firstRun, writers, formatVars>>

\* One turn of the loop of lines 104-105.  walk_ok: whether rglob of the
\* search path yields the next path or raises an OSError (caught at lines
\* 110-113); n: how many paths the rglob of write_subdirectories yields
\* before it ends, by exhaustion or by an OSError (caught at lines 64-67).
VisitRoot(walk_ok, n) ==
    /\ listPc = "Walking"
    /\ walk # <<>>
    /\ IF ~walk_ok
       THEN /\ logged' = logged \cup {"search_path"}
            /\ listPc' = AfterOSError
            /\ UNCHANGED <<unique_subdirs, walk>>
       ELSE LET root == Head(walk) IN
            /\ n \in 0..Len(rglob(root))
            /\ IF StartsWithLetter(root, letters)
               THEN /\ unique_subdirs' = write_subdirectories(root, unique_subdirs, n)
                    /\ logged' = IF n < Len(rglob(root)) THEN logged \cup {"root"}
                                 ELSE logged
               ELSE /\ n = Len(rglob(root))
                    /\ UNCHANGED <<unique_subdirs, logged>>
            /\ walk' = Tail(walk)
            /\ UNCHANGED listPc
    /\ UNCHANGED <<given_letters, letters, output_file, list_printed, exit_status>>
    /\ UNCHANGED <<ledgerVars, configVars, runVars, firstRun, writers, formatVars>>

\* Lines 107-109 after the loop.  open_ok: whether the file opens; n: how
\* many lines are written before the loop ends, by exhaustion or by an
\* OSError (caught at lines 110-113).
WriteOutput(open_ok, n) ==
    /\ listPc = "Walking"
    /\ walk = <<>>
    /\ n \in 0..Len(sorted(unique_subdirs))
    /\ IF ~open_ok
       THEN /\ n = 0
            /\ logged' = logged \cup {"output_file"}
            /\ UNCHANGED output_file
       ELSE /\ output_file' = [written |-> TRUE, lines |-> SubSeq(sorted(unique_subdirs), 1, n)]
            /\ logged' = IF n < Len(sorted(unique_subdirs))
                         THEN logged \cup {"output_file"} ELSE logged
    /\ listPc' = IF logged' # logged THEN AfterOSError ELSE "Done"
    /\ UNCHANGED <<given_letters, letters, unique_subdirs, walk, list_printed, exit_status>>
    /\ UNCHANGED <<ledgerVars, configVars, runVars, firstRun, writers, formatVars>>

\* main after the call of line 205: the results line (206) and the timing
\* lines (211-216) when list_subdirectories returned, sys.exit(1) (207-209)
\* when an OSError came out of it
MainEnds ==
    /\ listPc \in {"Done", "Raised"}
    /\ listPc' = "Exited"
    /\ IF listPc = "Raised"
       THEN /\ exit_status' = 1
            /\ UNCHANGED list_printed
       ELSE /\ exit_status' = 0
            /\ list_printed' = list_printed \cup {"results written", "ended", "elapsed"}
    /\ UNCHANGED <<given_letters, letters, unique_subdirs, walk, output_file, logged>>
    /\ UNCHANGED <<ledgerVars, configVars, runVars, firstRun, writers, formatVars>>

ListInit ==
    /\ LedgerInit({[s \in Stores |-> AbsentFile]})
    /\ ConfigInit({"mkvmerge"}, {<<>>}, {<<>>})
    /\ RunIdle
    /\ DiskInit
    /\ SingleRun
    /\ ListIdle(SeqsUpTo(GivenLetters, MaxLetters) \ {<<>>})
    /\ FormatIdle({timedelta(0, 0, 0)})

ListNext ==
    \/ ListStart
    \/ \E walk_ok \in BOOLEAN, n \in 0..Cardinality(TreeNodes) : VisitRoot(walk_ok, n)
    \/ \E open_ok \in BOOLEAN, n \in 0..Cardinality(TreeNodes) : WriteOutput(open_ok, n)
    \/ MainEnds

ListSpec == ListInit /\ [][ListNext]_vars

----------------------------------------------------------------------------
(* FormatSpec: list_subdirectories.py, format_time_delta (lines 115-163).  *)
(* The string returned is kept as its parts, the pieces ", ".join puts     *)
(* together: each part is a number, a unit word and the plural suffix.     *)

\* td.seconds and td.microseconds of the time deltas formatted
GivenSeconds == {0, 1, 2, 59, 60, 61, 120, 3599, 3600, 3661, 7200, 7322, 86399}
GivenMicroseconds == {0, 1, 999, 1000, 1999, 2000, 200000, 999999}

\* f"{n} {unit}{suffix}"
Part(n, unit, suffix) == [n |-> n, unit |-> unit, suffix |-> suffix]

\* 's' if x > 1 else '', lines 146-154
SuffixOver1(x) == IF x > 1 THEN "s" ELSE ""

SuffixNot1AsOver1(x) == IF x > 1 THEN "s" ELSE ""

\* 's' if x != 1 else '', lines 159 and 161
SuffixNot1(x) == IF x # 1 THEN "s" ELSE ""

\* parts.append under a condition
PartIf(condition, part) == IF condition THEN <<part>> ELSE <<>>

\* Lines 137-163
format_time_delta(delta) ==
    LET years     == delta.days \div 365
        remainder == delta.days % 365
        months    == remainder \div 30
        days      == remainder % 30
        hours     == delta.seconds \div 3600
        remaining == delta.seconds % 3600
        minutes   == remaining \div 60
        seconds   == remaining % 60
        milliseconds == delta.microseconds \div 1000
        no_larger_units ==
            \A x \in {years, months, days, hours, minutes} : x = 0
    IN PartIf(years > 0, Part(years, "year", SuffixOver1(years)))
       \o PartIf(months > 0, Part(months, "month", SuffixOver1(months)))
       \o PartIf(days > 0, Part(days, "day", SuffixOver1(days)))
       \o PartIf(hours > 0, Part(hours, "hour", SuffixOver1(hours)))
       \o PartIf(minutes > 0, Part(minutes, "minute", SuffixOver1(minutes)))
       \o PartIf(seconds > 0 \/ no_larger_units,
                 Part(seconds, "second", SuffixNot1(seconds)))
       \o PartIf(milliseconds > 0,
                 Part(milliseconds, "millisecond", SuffixNot1(milliseconds)))

\* The call of line 216
Format ==
    /\ formatted = <<>>
    /\ formatted' = format_time_delta(td)
    /\ UNCHANGED td
    /\ UNCHANGED <<ledgerVars, configVars, runVars, firstRun, writers, listVars>>

FormatInit ==
    /\ LedgerInit({[s \in Stores |-> AbsentFile]})
    /\ ConfigInit({"mkvmerge"}, {<<>>}, {<<>>})
    /\ RunIdle
    /\ DiskInit
    /\ SingleRun
    /\ ListIdle({<<>>})
    /\ FormatIdle({timedelta(days, seconds, microseconds) :
                      days \in 0..MaxDays, seconds \in GivenSeconds,
                      microseconds \in GivenMicroseconds})

FormatNext == Format

FormatSpec == FormatInit /\ [][FormatNext]_vars

----------------------------------------------------------------------------
(* What the claims speak of *)

Last(seq) == seq[Len(seq)]

\* The messages a reader finds in store s of ledger l, oldest first
StoreTexts(l, s) == MessageTexts(ReadStore(l[s]))

\* Messages added to store s since the run began
AddedTo(s) == Len(StoreTexts(ledger, s)) - Len(StoreTexts(preRun.ledger, s))

\* count fields of both stores together
TotalCount(l) == ReadStore(l["success"]).count + ReadStore(l["error"]).count

AttemptsWith(results) == {i \in DOMAIN attempts : attempts[i].result \in results}

\* A configured entry, as given, that names no directory to work on
EmptyString(given) == given = ""
Sentinel(given) == given \in {".", "./"}
NoDirectory(given) == given \notin Directories
Rejected(given) == EmptyString(given) \/ Sentinel(given) \/ NoDirectory(given)

NoExeMessage == Message("noexe", Entry(MKVMERGE_EXECUTABLE, ""), NoName)

----------------------------------------------------------------------------
(* C1 *)

C1_State ==
    (MKVMERGE_EXECUTABLE \notin RegularFiles /\ pc # "NotStarted") =>
        /\ pc \in {"Aborted", "Finished"}
        /\ StoreTexts(ledger, "error") =
              Append(StoreTexts(preRun.ledger, "error"), NoExeMessage)
        /\ ReadStore(ledger["error"]).count =
              Len(StoreTexts(preRun.ledger, "error")) + 1
        /\ ledger["success"] = preRun.ledger["success"]
        /\ dirIdx = 0
        /\ scanned = {}
        /\ attempts = <<>>
        /\ processedDirs = preRun.processedDirs
        /\ outputs = preRun.outputs

\* C1: when the executable path is not a regular file, the run records
\* exactly one Failure (the missing-executable message) in the error ledger
\* and nothing in the success ledger, enters no directory, attempts no file,
\* creates no processed_files directory and no output, and goes on to Finished.
C1_MissingExecutableAborts ==
    /\ []C1_State
    /\ (MKVMERGE_EXECUTABLE \notin RegularFiles) ~> (pc = "Finished")

C1_Witness ==
    /\ MKVMERGE_EXECUTABLE \notin RegularFiles
    /\ pc = "Finished"
    /\ INPUT_DIRECTORIES # <<>>
    /\ preRun.ledger["error"] = ObjectFile(FALSE, OldStore)
    /\ ReadStore(ledger["error"]).count = 2

----------------------------------------------------------------------------
(* C2 *)

\* C2: with the executable present, each candidate file of a directory is
\* attempted once, and every attempt appends exactly one outcome, so that
\* success.count + error.count = the pre-run total + the files attempted.
C2_OneOutcomePerCandidate ==
    MKVMERGE_EXECUTABLE \in RegularFiles =>
        /\ \A i, j \in DOMAIN attempts :
              (attempts[i].d = attempts[j].d /\ attempts[i].file = attempts[j].file)
                 => i = j
        /\ TotalCount(ledger) = TotalCount(preRun.ledger) + Len(attempts)

----------------------------------------------------------------------------
(* C3 *)

\* The step in which the tool exits nonzero for the file at the head
NonzeroExitStep ==
    /\ Len(attempts') = Len(attempts) + 1
    /\ Last(attempts').result = "nonzero"

C3_Step ==
    NonzeroExitStep =>
        /\ StoreTexts(ledger', "error") =
              Append(StoreTexts(ledger, "error"),
                     Message("error", Head(ext_files), NoName))
        /\ ledger'["success"] = ledger["success"]
        /\ pc' = "FileLoop"
        /\ ext_files' = Tail(ext_files)
        /\ dirIdx' = dirIdx
        /\ outputs \subseteq outputs'
        /\ processedDirs \subseteq processedDirs'

C3_State ==
    /\ pc = "Raised" => attempts # <<>> /\ Last(attempts).result # "nonzero"
    /\ pc = "Finished" /\ MKVMERGE_EXECUTABLE \in RegularFiles =>
          \A d \in 1..Len(INPUT_DIRECTORIES) :
              ~Rejected(given_directories[d]) =>
                  \A k \in DOMAIN ExtFiles(INPUT_DIRECTORIES[d], FILE_EXTENSIONS) :
                      \E i \in DOMAIN attempts :
                          /\ attempts[i].d = d
                          /\ attempts[i].file = ExtFiles(INPUT_DIRECTORIES[d], FILE_EXTENSIONS)[k]

\* C3: a nonzero exit appends exactly one Failure for that file to the error
\* ledger and nothing else, removes no output, and leaves the run in the file
\* loop with the remaining files still to come: a nonzero exit never ends the
\* run, and a run that reaches Finished has attempted every candidate file.
C3_NonzeroExitContinues == []C3_State /\ [][C3_Step]_vars

C3_Witness ==
    \E i, j, k \in DOMAIN attempts :
        /\ i < j /\ j < k
        /\ attempts[i].result = "zero"
        /\ attempts[j].result = "nonzero"
        /\ attempts[k].d > attempts[j].d
        /\ \E o \in outputs : o.from = attempts[i].file /\ o.path.dir = attempts[i].dir
        /\ pc = "Finished"

----------------------------------------------------------------------------
(* C4 *)

\* C4: a launch failure or a failure to create processed_files is recorded
\* as one Failure for that file and the run goes on with the next file.
C4_PerFileErrorsRecorded ==
    \A i \in AttemptsWith({"nolaunch", "mkdirfail"}) :
        /\ pc # "Raised"
        /\ \E m \in 1..Len(StoreTexts(ledger, "error")) :
              /\ m > Len(StoreTexts(preRun.ledger, "error"))
              /\ StoreTexts(ledger, "error")[m].file = attempts[i].file

----------------------------------------------------------------------------
(* C5 *)

\* C5: no error escapes run(): a run never ends otherwise than Finished,
\* and Finished has printed start time, end time and elapsed time.
C5_RunAlwaysFinishes ==
    /\ pc # "Raised"
    /\ pc = "Finished" => printed = {"start", "end", "elapsed"}

----------------------------------------------------------------------------
(* C6 *)

\* C6: after every completed record, whatever the file held before, the
\* store on disk has count equal to the length of its messages.
C6_CountIsLength ==
    \A s \in Stores :
        recorded[s] # <<>> =>
            /\ ledger[s].kind = "object"
            /\ ledger[s].root.kind = "store"
            /\ ledger[s].root.count = Len(ledger[s].root.messages)

C6_Witness ==
    \E s \in Stores :
        /\ initLedger[s] = ObjectFile(FALSE, Store(0, 0, 2, <<>>))
        /\ Len(recorded[s]) = 2

----------------------------------------------------------------------------
(* C7 *)

InvalidFiles == {GarbageFile} \cup MisshapenFiles

\* C7: on a ledger file holding invalid data (unparseable, or parseable but
\* not shaped as a ledger store) every record completes, and the file is a
\* fresh store holding exactly the messages recorded since, count equal to
\* their number, created_date the time of the first of those writes.
C7_InvalidLedgerReplaced ==
    \A s \in Stores :
        (initLedger[s] \in InvalidFiles /\ calls[s] > 0) =>
            /\ Len(recorded[s]) = calls[s]
            /\ ledger[s].kind = "object"
            /\ ledger[s].root.kind = "store"
            /\ MessageTexts(ledger[s].root) = recorded[s]
            /\ ledger[s].root.count = Len(recorded[s])
            /\ ledger[s].root.created_date = firstWrite[s]

----------------------------------------------------------------------------
(* C8 *)

\* C8: from an absent file, N records on a store over the runs leave exactly
\* those N messages, in the order recorded, with count = N.
C8_RoundTrip ==
    \A s \in Stores :
        initLedger[s] = AbsentFile =>
            /\ Len(recorded[s]) = calls[s]
            /\ StoreTexts(ledger, s) = recorded[s]
            /\ ReadStore(ledger[s]).count = calls[s]

C8_Witness ==
    \E s \in Stores :
        /\ initLedger[s] = AbsentFile
        /\ calls[s] = 3
        /\ recorded[s][1] # recorded[s][2]
        /\ recorded[s][1] = recorded[s][3]
        /\ run = 2
        /\ lastRecord = "completed"

----------------------------------------------------------------------------
(* C9 *)

C9_State ==
    /\ \A d \in 1..Len(given_directories) :
          Rejected(given_directories[d]) =>
              /\ d \notin scanned
              /\ \A i \in DOMAIN attempts : attempts[i].d # d
              /\ INPUT_DIRECTORIES[d] \notin processedDirs
              /\ \A o \in outputs : o.path.dir # INPUT_DIRECTORIES[d]
    /\ pc = "Finished" /\ MKVMERGE_EXECUTABLE \in RegularFiles =>
          \A d \in 1..Len(given_directories) :
              ~Rejected(given_directories[d]) => d \in scanned

C9_Step ==
    (/\ pc = "DirectoryLoop"
     /\ dirIdx <= Len(given_directories)
     /\ Rejected(given_directories[dirIdx])) =>
        /\ pc' = "DirectoryLoop"
        /\ dirIdx' \in {dirIdx, dirIdx + 1}
        /\ UNCHANGED <<ledger, attempts, scanned, processedDirs, outputs, ext_files>>

\* C9: a configured directory that is the empty string, the current-directory
\* sentinel, missing or not a directory is passed over: nothing is globbed
\* from it, no file of it is attempted, no ledger entry is written and no
\* processed_files is made for it, the loop moves to the next entry without
\* raising, and the valid directories are still processed.
C9_RejectedDirectorySkipped == []C9_State /\ [][C9_Step]_vars

C9_Witness ==
    /\ pc = "Finished"
    /\ Len(given_directories) = 2
    /\ Rejected(given_directories[1])
    /\ scanned = {2}
    /\ \E i \in DOMAIN attempts : attempts[i].d = 2 /\ attempts[i].result = "zero"

----------------------------------------------------------------------------
(* C10 *)

\* C10: every invocation appends to exactly one ledger: to the success
\* ledger if the process exits with status zero and to the error ledger
\* otherwise (nonzero exit or launch failure), and is not repeated.
C10_OutcomeFollowsExit ==
    MKVMERGE_EXECUTABLE \in RegularFiles =>
        /\ AddedTo("success") = Cardinality(AttemptsWith({"zero"}))
        /\ AddedTo("error") = Cardinality(AttemptsWith({"nonzero", "nolaunch"}))

----------------------------------------------------------------------------
(* C11 *)

\* The step in which the tool exits zero for the file at the head
ZeroExitStep ==
    /\ Len(attempts') = Len(attempts) + 1
    /\ Last(attempts').result = "zero"

C11_Step ==
    ZeroExitStep =>
        LET input_dir == INPUT_DIRECTORIES[dirIdx]
            ext_file  == Head(ext_files)
            path == [dir |-> input_dir, stem |-> ext_file.stem,
                     ext |-> OUTPUT_EXTENSION]
        IN /\ \A o \in outputs' : o.path = path => o.from = ext_file
           /\ [path |-> path, from |-> ext_file] \in outputs'
           /\ {o \in outputs' : o.path # path} = {o \in outputs : o.path # path}
           /\ Last(StoreTexts(ledger', "success")).saved =
                 Entry(ext_file.stem, OUTPUT_EXTENSION)

C11_State ==
    /\ \A dir \in Directories :
          \A i, j \in DOMAIN DirEntries(dir) :
             DirEntries(dir)[i].stem = DirEntries(dir)[j].stem =>
                OutputPath(dir, DirEntries(dir)[i]) = OutputPath(dir, DirEntries(dir)[j])
    /\ \A o, q \in outputs : o.path = q.path => o = q
    /\ \A o \in outputs :
          \E i \in AttemptsWith({"zero"}) :
             /\ attempts[i].dir = o.path.dir
             /\ attempts[i].file = o.from
             /\ attempts[i].file.stem = o.path.stem
             /\ \A j \in AttemptsWith({"zero"}) :
                   (j > i /\ attempts[j].dir = o.path.dir) =>
                      attempts[j].file.stem # o.path.stem

\* C11: the output path of a candidate is its directory's processed_files
\* joined with its stem and the output extension, so it depends on the
\* stem, the output extension and the directory only; two candidates of one
\* directory with the same stem and different extensions get the same
\* path, and the output of the later one replaces that of the earlier one.
C11_OutputPathByStem == [][C11_Step]_vars /\ []C11_State

C11_Witness ==
    /\ \E i, j \in AttemptsWith({"zero"}) :
          /\ i < j
          /\ attempts[i].dir = "dirA" /\ attempts[j].dir = "dirA"
          /\ attempts[i].file = Entry("movie", "mkv")
          /\ attempts[j].file = Entry("movie", "mp4")
    /\ [path |-> [dir |-> "dirA", stem |-> "movie", ext |-> "mkv"],
        from |-> Entry("movie", "mp4")] \in outputs
    /\ Cardinality(outputs) = 1

----------------------------------------------------------------------------
(* C12 *)

\* The immediate children of dir that are files with a configured extension
MatchingFiles(dir) ==
    {e \in {Children(dir)[i] : i \in DOMAIN Children(dir)} :
        /\ e \notin ChildDirectories(dir)
        /\ \E k \in DOMAIN FILE_EXTENSIONS : e.ext = FILE_EXTENSIONS[k]}

\* The step of process_directory that collects the candidates
DiscoverStep == pc = "DirectoryLoop" /\ pc' = "FileLoop"

C12_Step ==
    DiscoverStep =>
        LET dir == INPUT_DIRECTORIES[dirIdx] IN
        /\ {ext_files'[i] : i \in DOMAIN ext_files'} = MatchingFiles(dir)
        /\ \A i, j \in DOMAIN ext_files' : ext_files'[i] = ext_files'[j] => i = j

\* C12: discovery yields exactly the immediate children of the directory
\* that are files with a configured extension: nothing from a nested
\* directory, no entry that is not a file, and each matching file once,
\* however the extension list is written.
C12_DiscoveryIsTheMatchingFiles == [][C12_Step]_vars

----------------------------------------------------------------------------
(* C13 *)

\* The candidates a run attempted, in order, without how each ended
Candidates(atts) == [i \in DOMAIN atts |-> <<atts[i].d, atts[i].dir, atts[i].file>>]

\* The output paths a run wrote
PathsWritten(atts) ==
    {[dir |-> atts[i].dir, stem |-> atts[i].file.stem, ext |-> OUTPUT_EXTENSION] :
        i \in {j \in DOMAIN atts : atts[j].result = "zero"}}

\* Messages in both stores of ledger l
MessageCount(l) == Len(StoreTexts(l, "success")) + Len(StoreTexts(l, "error"))

SecondRunEnded == run = 2 /\ pc \in {"Finished", "Raised"}

\* Outcomes a run records: one per attempt the tool ended with an exit
\* status, or the single record of the missing executable
OutcomesOf(atts) ==
    IF MKVMERGE_EXECUTABLE \notin RegularFiles THEN 1
    ELSE Cardinality({i \in DOMAIN atts : atts[i].result \in {"zero", "nonzero"}})

C13_SameWork ==
    SecondRunEnded =>
        /\ Candidates(attempts) = Candidates(firstRun.attempts)
        /\ \A i \in DOMAIN attempts :
              attempts[i].file # PROCESSED_FILES /\ attempts[i].file.stem # "processed_files"
        /\ PathsWritten(attempts) = PathsWritten(firstRun.attempts)
        /\ MessageCount(ledger) - MessageCount(preRun.ledger) =
              MessageCount(preRun.ledger) - MessageCount(firstRun.before)

\* C13 as stated: both runs attempt the same candidates (none of them an
\* output of the first run), write the same output paths, and add the same
\* positive number of messages to the ledger.
C13_RerunAddsSamePositiveAmount ==
    /\ C13_SameWork
    /\ SecondRunEnded => MessageCount(ledger) - MessageCount(preRun.ledger) > 0

\* C13, amended: both runs attempt the same candidates (none of them an
\* output of the first run), write the same output paths, and add the same
\* number of messages to the ledger, with no dedup: one per outcome recorded,
\* which is zero when the run records no outcome.
C13_RerunAddsSameAmount ==
    /\ C13_SameWork
    /\ SecondRunEnded =>
          /\ MessageCount(ledger) - MessageCount(preRun.ledger) = OutcomesOf(attempts)
          /\ MessageCount(ledger) - MessageCount(firstRun.before) = 2 * OutcomesOf(attempts)

C13_Witness ==
    /\ SecondRunEnded
    /\ pc = "Finished"
    /\ Len(attempts) >= 2
    /\ \E i \in DOMAIN attempts : attempts[i].result = "zero"
    /\ \E i \in DOMAIN attempts : attempts[i].result = "nonzero"
    /\ MessageCount(ledger) - MessageCount(firstRun.before) >= 4
    /\ MessageCount(firstRun.before) > 0

----------------------------------------------------------------------------
(* C14 *)

\* Invocations of the tool that have begun and not ended
InProgress == AttemptsWith({"running"})

\* The files process_file was called on at loop position d, in order
AttemptedAt(d) ==
    LET At(a) == a.d = d
        atts == SelectSeq(attempts, At)
    IN [i \in DOMAIN atts |-> atts[i].file]

C14_State ==
    /\ Cardinality(InProgress) <= 1
    /\ \A i \in DOMAIN attempts :
          i < Len(attempts) => attempts[i].result \in {"zero", "nonzero"}
    /\ \A i, j \in DOMAIN attempts : i <= j => attempts[i].d <= attempts[j].d
    /\ \A i \in DOMAIN attempts : attempts[i].d <= dirIdx
    /\ \A d \in scanned :
          dirIdx > d =>
             AttemptedAt(d) = ExtFiles(INPUT_DIRECTORIES[d], FILE_EXTENSIONS)

\* A step that starts an invocation of the tool
InvocationStarts == Len(attempts') = Len(attempts) + 1 /\ Last(attempts').result = "running"

C14_Step ==
    InvocationStarts =>
        /\ InProgress = {}
        /\ MessageCount(ledger) = MessageCount(preRun.ledger) + Len(attempts)

\* C14: directories are handled in configured order and files one at a
\* time: at most one invocation of the tool is in progress, the ledger
\* write for a file is complete before the invocation for the next file
\* starts, and every file of directory i has been attempted before
\* directory i+1 is validated.
C14_OneAtATimeInOrder == []C14_State /\ [][C14_Step]_vars

C14_Witness ==
    /\ Len(attempts) = 3
    /\ attempts[1].d = 1 /\ attempts[2].d = 1 /\ attempts[3].d = 2
    /\ attempts[1].result = "zero" /\ attempts[2].result = "nonzero"
    /\ attempts[3].result = "running"
    /\ MessageCount(ledger) = MessageCount(preRun.ledger) + 2

----------------------------------------------------------------------------
(* C17 *)

\* A step of the run itself that makes a processed_files directory
RunMakesDir == processedDirs' # processedDirs /\ pc' # pc

C17_Step ==
    RunMakesDir =>
        /\ pc = "MakeDirs"
        /\ ext_files # <<>>
        /\ processedDirs' = processedDirs \cup {INPUT_DIRECTORIES[dirIdx]}

C17_State ==
    /\ \A i \in DOMAIN attempts :
          attempts[i].result \in {"running", "zero", "nonzero", "nolaunch"} =>
             attempts[i].dir \in processedDirs
    /\ \A i \in DOMAIN attempts : attempts[i].result # "mkdirexists"

\* C17: before every invocation the processed_files directory of the
\* file's directory exists; making sure of it never fails merely because
\* the directory is already there, whether an earlier file, an earlier run
\* or another process (between the existence check and the creation) made
\* it; and the run makes it only for a directory with a candidate file.
C17_OutputDirEnsured == []C17_State /\ [][C17_Step]_vars

----------------------------------------------------------------------------
(* C15 *)

\* A step in which a record on store s completes
Completes(s) == recorded'[s] # recorded[s]

\* A store as the program's own records leave it (C6)
Counted(root) == root.kind = "store" /\ root.count = Len(root.messages)

C15_Step ==
    \A s \in Stores :
        Completes(s) =>
            LET before == ReadStore(ledger[s])
                after  == ReadStore(ledger'[s])
            IN /\ after.kind = "store"
               /\ after.updated_date = now
               /\ IF before.kind = "store"
                  THEN /\ after.created_date = before.created_date
                       /\ Counted(before) => after.count = before.count + 1
                  ELSE /\ after.created_date = now
                       /\ after.count = 1

C15_State ==
    \A s \in Stores :
        recorded[s] # <<>> =>
            LET first == ReadStore(initLedger[s])
                store == ReadStore(ledger[s])
            IN /\ store.created_date =
                     IF first.kind = "store" THEN first.created_date ELSE firstWrite[s]
               /\ Counted(first) => store.count = first.count + Len(recorded[s])
               /\ first.kind # "store" => store.count = Len(recorded[s])

----------------------------------------------------------------------------
(* C18 *)

C18_Step ==
    \A s \in Stores :
        /\ calls'[s] = calls[s] => ledger'[s] = ledger[s]
        /\ ledger[s].kind \in {"object", "array"} =>
              /\ ledger'[s].kind = ledger[s].kind
              /\ ledger'[s].other = ledger[s].other

\* C18: a record on one store leaves the other store's file as it was, and
\* a record on a file that parses leaves the top-level entries beside the
\* store's root key as they were.
C18_StoresIndependent == [][C18_Step]_vars

C18_Witness ==
    /\ initLedger["success"] = ObjectFile(TRUE, NoRoot)
    /\ Len(recorded["success"]) = 2
    /\ ledger["success"].other
    /\ ledger["success"].root.count = 2
    /\ calls["error"] = 0
    /\ initLedger["error"] = ObjectFile(FALSE, OldStore)
    /\ ledger["error"] = initLedger["error"]

----------------------------------------------------------------------------
(* C19 *)

Discarded(file) == file.kind \in {"empty", "garbage"}

C19_State ==
    \A s \in Stores :
        ((initLedger[s] = AbsentFile \/ Discarded(initLedger[s])) /\ recorded[s] # <<>>) =>
            LET store == ReadStore(ledger[s]) IN
            /\ store.messages # <<>>
            /\ store.created_date = store.messages[1].timestamp
            /\ store.updated_date = Last(store.messages).timestamp
            /\ \A i, j \in DOMAIN store.messages :
                  i <= j => store.messages[i].timestamp <= store.messages[j].timestamp

\* C19: a store built by records alone, from an absent or discarded file,
\* has created_date equal to the timestamp of its first message and
\* updated_date equal to the timestamp of its last message after every
\* record, and, the clock never going back, timestamps that never decrease
\* along the messages.
C19_DatesAreMessageTimes == C19_State

C19_Witness ==
    \E s \in Stores :
        /\ initLedger[s] = GarbageFile
        /\ Len(recorded[s]) = 2
        /\ ReadStore(ledger[s]).messages[1].timestamp = 1
        /\ ReadStore(ledger[s]).created_date = 1
        /\ lastRecord = "completed"

----------------------------------------------------------------------------
(* C16 *)

\* No process is between opening store s for writing and the dump
Settled(s) == \A p \in Procs : ~(writers[p].pc = "opened" /\ writers[p].store = s)

\* How often message m occurs in the sequence texts
Occurrences(texts, m) == Cardinality({i \in DOMAIN texts : texts[i] = m})

\* C16: when the record operations of two runs interleave on one ledger
\* file, every outcome a run has recorded is still in the store after any
\* later write by either run, and the count is the number of records made
\* by both runs together.
C16_NoOutcomeLost ==
    \A s \in Stores :
        Settled(s) =>
            /\ \A p \in Procs :
                  Occurrences(StoreTexts(ledger, s), MessageOf(p)) =
                     Occurrences(recorded[s], MessageOf(p))
            /\ ReadStore(ledger[s]).count =
                  Len(StoreTexts(initLedger, s)) + Len(recorded[s])

----------------------------------------------------------------------------
(* C20 *)

\* A code point with the case of a letter set aside
Folded(c) == IF c \in 97..122 THEN c - 32 ELSE c

\* name starts with letter, case set aside
StartsFolded(name, letter) ==
    /\ Len(letter) <= Len(name)
    /\ \A j \in DOMAIN letter : Folded(name[j]) = Folded(letter[j])

\* path is a directory strictly below a directory that is strictly below
\* the search path and whose name starts with one of the given letters
Qualifies(path) ==
    /\ path \in TreeDirs
    /\ \E k \in 1..(Len(path) - 1) :
          /\ SubSeq(path, 1, k) \in TreeDirs
          /\ \E i \in DOMAIN given_letters : StartsFolded(path[k], given_letters[i])

\* list_subdirectories has returned and logged no error
ListedWithoutError == listPc = "Done" /\ logged = {}

\* C20: list_subdirectories writes each qualifying path exactly once and
\* in ascending order, a path qualifying if and only if it is a directory
\* strictly below a directory that is strictly below the search path and
\* whose name starts, case set aside, with one of the given letters.
C20_SortedQualifyingPaths ==
    ListedWithoutError =>
        /\ output_file.written
        /\ {output_file.lines[i] : i \in DOMAIN output_file.lines} =
              {Str(path) : path \in {q \in TreeNodes : Qualifies(q)}}
        /\ \A i, j \in DOMAIN output_file.lines :
              i < j => /\ output_file.lines[i] # output_file.lines[j]
                       /\ StrLessEq(output_file.lines[i], output_file.lines[j])

C20_Witness ==
    /\ ListedWithoutError
    /\ given_letters = <<<<65>>>>
    /\ output_file.lines =
          <<Str(<<NameAl, NameZ>>), Str(<<NameAl, NameZ, NameA>>),
            Str(<<NameAl, NameZ, NameA, NameB>>),
            Str(<<NameAB, NameZ>>), Str(<<NameA, NameZ>>)>>

----------------------------------------------------------------------------
(* C21 *)

\* main has ended after an OS error outside write_subdirectories: in the
\* walk of the search path, or in opening or writing the output file
WideError == logged \cap {"search_path", "output_file"} # {}

\* The paths the roots visited in full contribute
C21_State ==
    listPc = "Exited" =>
        /\ WideError => exit_status = 1 /\ "results written" \notin list_printed
        /\ (logged = {"root"}) =>
              /\ exit_status = 0
              /\ output_file.written
              /\ output_file.lines = sorted(unique_subdirs)

\* C21: an OS error in the walk of the search path or in opening or writing
\* the output file makes main exit with status 1 without the line that
\* results were written; an error inside one matched directory is logged,
\* and what the other directories hold is still collected and written.
C21_WideErrorExitsOne == C21_State

----------------------------------------------------------------------------
(* C22 *)

\* The units in the order the string names them
UnitOrder == <<"year", "month", "day", "hour", "minute", "second", "millisecond">>

\* The value of each unit for the time delta td
UnitValue(unit) ==
    CASE unit = "year"   -> td.days \div 365
      [] unit = "month"  -> (td.days % 365) \div 30
      [] unit = "day"    -> td.days - 365 * (td.days \div 365)
                               - 30 * ((td.days % 365) \div 30)
      [] unit = "hour"   -> td.seconds \div 3600
      [] unit = "minute" -> (td.seconds \div 60) % 60
      [] unit = "second" -> td.seconds % 60
      [] OTHER           -> td.microseconds \div 1000

\* Whether the unit at place k of UnitOrder is to be shown
Shown(k) ==
    \/ UnitValue(UnitOrder[k]) > 0
    \/ k = 6 /\ \A j \in 1..5 : UnitValue(UnitOrder[j]) = 0

\* C22: the string format_time_delta returns is a non-empty list of parts
\* in the order years, months, days, hours, minutes, seconds, milliseconds,
\* with years = days div 365, months = (days mod 365) div 30 and days the
\* remainder; a unit of value zero is left out, except seconds when every
\* larger unit is zero; a unit is in the singular exactly when it is 1.
C22_FormatTimeDelta ==
    formatted # <<>> =>
        /\ \A i \in DOMAIN formatted :
              \E k \in DOMAIN UnitOrder :
                 /\ formatted[i].unit = UnitOrder[k]
                 /\ formatted[i].n = UnitValue(UnitOrder[k])
                 /\ Shown(k)
                 /\ formatted[i].suffix = "" <=> formatted[i].n = 1
                 /\ formatted[i].suffix \in {"", "s"}
                 /\ i = Cardinality({j \in 1..k : Shown(j)})
        /\ Len(formatted) = Cardinality({k \in DOMAIN UnitOrder : Shown(k)})
        /\ Len(formatted) >= 1

C22_Witness ==
    /\ td = timedelta(400, 3661, 200000)
    /\ formatted = <<Part(1, "year", ""), Part(1, "month", ""), Part(5, "day", "s"),
                     Part(1, "hour", ""), Part(1, "minute", ""), Part(1, "second", ""),
                     Part(200, "millisecond", "s")>>

====
